---- MODULE Spec2Model ----
(***************************************************************************)
(* A model of scraper.py (cinema showtime scraper, v9.5): the reconciler   *)
(* merge_data, the sink adapter (read_master_sheet / update_master_sheet), *)
(* the truncation of the showtime payload, the control flow of             *)
(* main_scraper and of the __main__ block, the showtime walker             *)
(* scrape_aggregated_showtimes and its extraction rule                     *)
(* parse_showtimes_from_html.                                              *)
(*                                                                         *)
(* Python values are modelled as follows.                                  *)
(*   str        a TLA+ string; len, slicing and + are Len, SubSeq and \o   *)
(*   None       the reserved string None below                             *)
(*   dict row   a function from column names to values                     *)
(*   object     a reference (an index into heap); two names that hold the  *)
(*              same reference are the same Python object, so a write      *)
(*              through one is seen through the other                      *)
(*   dict       a sequence of [key, ref] entries in insertion order        *)
(***************************************************************************)
EXTENDS Integers, Sequences, FiniteSets, TLC

VARIABLES
    pc,                   \* position of the control flow
    sheet,                \* the master worksheet: a sequence of rows of cells
    heap,                 \* the dict objects (records) alive in the run
    existing_movie_data,  \* main_scraper: dict title -> record reference
    scraped_records,      \* main_scraper: list of record references
    final_data,           \* main_scraper: list returned by merge_data
    movie_listings,       \* main_scraper: the listing entries of the run
    idx,                  \* main_scraper: position in movie_listings
    cur,                  \* main_scraper: locals of the current iteration
    clock,                \* get_malaysian_time(), in ticks
    run,                  \* number of the current invocation
    failed,               \* the request that failed last in this invocation
    exit_status,          \* exit status of the process of this invocation
    outcome,              \* how main_scraper ended in this invocation
    sheet0,               \* history: sheet at the start of the invocation
    heap0,                \* history: heap when merge_data was called
    walk,                 \* scrape_aggregated_showtimes: locals of the call, and
                          \* history: the requests sent and responses received
    soup,                 \* parse_showtimes_from_html: the elements selected
    showtimes             \* parse_showtimes_from_html: the returned dict

vars == <<pc, sheet, heap, existing_movie_data, scraped_records, final_data,
          movie_listings, idx, cur, clock, run, failed, exit_status, outcome,
          sheet0, heap0, walk, soup, showtimes>>

walkerVars == <<walk, soup, showtimes>>

(***************************************************************************)
(* Bounds of the model.                                                    *)
(***************************************************************************)
MaxFresh == 2      \* records in a fresh batch given to merge_data
MaxListings == 2   \* listing entries on the now-showing page
MaxRuns == 2       \* scheduled invocations in a behaviour

(***************************************************************************)
(* Values.                                                                 *)
(***************************************************************************)
NA == "N/A"
None == "<None>"

\* Python truthiness of a str or None.
Truthy(value) == value # None /\ value # ""

\* str(x) for a str or None.
Str(value) == IF value = None THEN "None" ELSE value

\* The columns of the sheet that the model carries, in the order of the
\* 17-column header list.
headers == <<"Movie Title", "Genre", "Local Poster Path",
             "Aggregated Showtimes Data", "Scrape Date">>

Columns == {headers[i] : i \in 1..Len(headers)}

\* Characters in ascending code point order (the part of ASCII the titles
\* and the time labels use).
CodePoints == " 0123456789:ABCDEFGHIJKLMNOPQRSTUVWXYZabcdefghijklmnopqrstuvwxyz"

Chars == [i \in 1..Len(CodePoints) |-> SubSeq(CodePoints, i, i)]

\* The position of character c in that order.
ord(c) == CHOOSE i \in 1..Len(CodePoints) : Chars[i] = c

\* a < b for Python str: lexicographic by code point, a proper prefix first.
RECURSIVE StrLess(_, _)
StrLess(a, b) ==
    IF b = "" THEN FALSE
    ELSE IF a = "" THEN TRUE
    ELSE LET ca == SubSeq(a, 1, 1)
             cb == SubSeq(b, 1, 1)
         IN  IF ca # cb THEN ord(ca) < ord(cb)
             ELSE StrLess(SubSeq(a, 2, Len(a)), SubSeq(b, 2, Len(b)))

(***************************************************************************)
(* dict                                                                    *)
(***************************************************************************)
DictKeys(d) == {d[i].key : i \in 1..Len(d)}

DictHas(d, k) == \E i \in 1..Len(d) : d[i].key = k

DictGet(d, k) == d[CHOOSE i \in 1..Len(d) : d[i].key = k].ref

\* d[k] = ref: a present key keeps its position, a new key goes last.
DictSet(d, k, ref) ==
    IF DictHas(d, k)
    THEN [i \in 1..Len(d) |-> IF d[i].key = k THEN [key |-> k, ref |-> ref] ELSE d[i]]
    ELSE Append(d, [key |-> k, ref |-> ref])

\* list(d.values())
DictValues(d) == [i \in 1..Len(d) |-> d[i].ref]

(***************************************************************************)
(* merge_data                                                              *)
(***************************************************************************)
\* A faulty guard: every fresh value overwrites.
OverwritesMutant(value) == TRUE

\* The guard of the per-field overwrite: `if value and value != 'N/A'`.
Overwrites(value) == Truthy(value) /\ value # NA

\* A faulty update: the scrape date of the stored record is never written.
UpdateRecordMutant(old, movie) ==
    [k \in DOMAIN old |->
        IF k # "Scrape Date" /\ k \in DOMAIN movie /\ Overwrites(movie[k])
        THEN movie[k] ELSE old[k]]

\* The body of the `if title in updated_data` branch, applied to the record
\* object stored under the title: the per-field loop, then the scrape date.
UpdateRecord(old, movie) ==
    LET new == [k \in DOMAIN old \cup {c \in DOMAIN movie : Overwrites(movie[c])} |->
                   IF k \in DOMAIN movie /\ Overwrites(movie[k])
                   THEN movie[k] ELSE old[k]]
    IN  [k \in DOMAIN new \cup {"Scrape Date"} |->
            IF k = "Scrape Date" THEN movie["Scrape Date"] ELSE new[k]]

\* A faulty insert: the new title is dropped.
InsertNewMutant(updated_data, title, movie) == updated_data

\* The else branch: updated_data[title] = movie stores the fresh record
\* object itself.
InsertNew(updated_data, title, movie) == DictSet(updated_data, title, movie)

\* The `for movie in fresh_data` loop from position i on. h is the heap and
\* updated_data the dict being built; both are returned.
RECURSIVE MergeLoop(_, _, _, _)
MergeLoop(h, updated_data, fresh_data, i) ==
    IF i > Len(fresh_data)
    THEN [heap |-> h, updated_data |-> updated_data]
    ELSE LET movie == fresh_data[i]
             title == h[movie]["Movie Title"]
         IN  IF DictHas(updated_data, title)
             THEN LET target == DictGet(updated_data, title)
                  IN  MergeLoop([h EXCEPT ![target] = UpdateRecord(h[target], h[movie])],
                                updated_data, fresh_data, i + 1)
             ELSE MergeLoop(h, InsertNew(updated_data, title, movie), fresh_data, i + 1)

\* The sort key: lambda x: x.get('Movie Title', '')
TitleKey(x) == IF "Movie Title" \in DOMAIN x THEN x["Movie Title"] ELSE ""

\* Insert ref into the sorted list refs after every element whose key is not
\* greater (sorted() is stable).
RECURSIVE InsertSorted(_, _, _)
InsertSorted(h, refs, ref) ==
    IF refs = <<>> THEN <<ref>>
    ELSE IF StrLess(TitleKey(h[ref]), TitleKey(h[Head(refs)]))
         THEN <<ref>> \o refs
         ELSE <<Head(refs)>> \o InsertSorted(h, Tail(refs), ref)

RECURSIVE SortedFrom(_, _, _)
SortedFrom(h, refs, acc) ==
    IF refs = <<>> THEN acc
    ELSE SortedFrom(h, Tail(refs), InsertSorted(h, acc, Head(refs)))

\* A faulty sort: the list is returned in the dict's order.
SortedMutant(h, refs) == refs

\* sorted(refs, key=lambda x: x.get('Movie Title', ''))
Sorted(h, refs) == SortedFrom(h, refs, <<>>)

\* A faulty merge: updated_data starts empty instead of as a copy.
merge_dataMutant(h, existing_data, fresh_data) ==
    LET r == MergeLoop(h, <<>>, fresh_data, 1)
    IN  [heap |-> r.heap, ret |-> Sorted(r.heap, DictValues(r.updated_data))]

\* merge_data(existing_data, fresh_data) on heap h: the heap after the call
\* and the returned list. updated_data = existing_data.copy() is a shallow
\* copy: a new dict holding the same record objects.
merge_data(h, existing_data, fresh_data) ==
    LET r == MergeLoop(h, existing_data, fresh_data, 1)
    IN  [heap |-> r.heap, ret |-> Sorted(r.heap, DictValues(r.updated_data))]

(***************************************************************************)
(* Time, and the record literal of the record builder.                     *)
(***************************************************************************)
REQUEST_DELAY == 2
SecondsPerDay == 24 * 60 * 60

Digit(d) == SubSeq("0123456789", d + 1, d + 1)

TwoDigits(n) == Digit((n \div 10) % 10) \o Digit(n % 10)

\* get_malaysian_time().strftime('%Y-%m-%d %H:%M:%S') at t seconds after
\* midnight of 1 January 2024 (t within that month).
strftime(t) ==
    "2024-01-" \o TwoDigits(1 + t \div SecondsPerDay) \o " "
        \o TwoDigits((t % SecondsPerDay) \div 3600) \o ":"
        \o TwoDigits((t % 3600) \div 60) \o ":"
        \o TwoDigits(t % 60)

\* The dict appended to scraped_records (restricted to the modelled columns).
Record(title, genre, local_poster_path, showtimes_data, scrape_date) ==
    [k \in Columns |->
        CASE k = "Movie Title" -> title
          [] k = "Genre" -> genre
          [] k = "Local Poster Path" -> local_poster_path
          [] k = "Aggregated Showtimes Data" -> showtimes_data
          [] k = "Scrape Date" -> scrape_date]

(***************************************************************************)
(* The sink adapter.                                                       *)
(***************************************************************************)
\* [str(d.get(h, '')) for h in headers]
RowOf(d) == [i \in 1..Len(headers) |->
                IF headers[i] \in DOMAIN d THEN Str(d[headers[i]]) ELSE ""]

\* [headers] + [row of d for d in data]
rows_to_write(h, data) == <<headers>> \o [i \in 1..Len(data) |-> RowOf(h[data[i]])]

\* worksheet.get_all_records(): the rows below the first, each keyed by the
\* cells of the first row. An empty sheet has no records.
get_all_records(rows) ==
    IF Len(rows) < 2 THEN <<>>
    ELSE [i \in 1..(Len(rows) - 1) |->
             [k \in {rows[1][j] : j \in 1..Len(rows[1])} |->
                 rows[i + 1][CHOOSE j \in 1..Len(rows[1]) : rows[1][j] = k]]]

\* {record['Movie Title']: record for record in records}, the records being
\* the objects refs of heap h.
RECURSIVE DictOfRecords(_, _, _, _)
DictOfRecords(h, refs, i, d) ==
    IF i > Len(refs) THEN d
    ELSE DictOfRecords(h, refs, i + 1, DictSet(d, h[refs[i]]["Movie Title"], refs[i]))

\* The titles of the records a reader finds in the sheet.
SheetTitles(rows) ==
    {get_all_records(rows)[i]["Movie Title"] : i \in 1..Len(get_all_records(rows))}

(***************************************************************************)
(* The truncation of the showtime payload.                                 *)
(***************************************************************************)
SHEETS_CELL_CHAR_LIMIT == 49900

TRUNCATION_MARKER == "...[TRUNCATED]"

\* A faulty builder: the payload is never truncated.
TruncateOff(showtimes_data) == showtimes_data

\* A faulty truncation: the marker is fitted inside the budget.
TruncateMutant(showtimes_data) ==
    IF Len(showtimes_data) > SHEETS_CELL_CHAR_LIMIT
    THEN SubSeq(showtimes_data, 1, SHEETS_CELL_CHAR_LIMIT - Len(TRUNCATION_MARKER) - 1)
             \o TRUNCATION_MARKER
    ELSE showtimes_data

\* if len(showtimes_data) > SHEETS_CELL_CHAR_LIMIT:
\*     showtimes_data = showtimes_data[:SHEETS_CELL_CHAR_LIMIT] + "...[TRUNCATED]"
Truncate(showtimes_data) ==
    IF Len(showtimes_data) > SHEETS_CELL_CHAR_LIMIT
    THEN SubSeq(showtimes_data, 1, SHEETS_CELL_CHAR_LIMIT) \o TRUNCATION_MARKER
    ELSE showtimes_data

(***************************************************************************)
(* The environment: the site's pages and the walker's results.             *)
(***************************************************************************)
\* The titles on the site, in ascending order.
TitleList == <<"Alien", "Aliens", "Brazil">>

Titles == {TitleList[i] : i \in 1..Len(TitleList)}

\* The titles on the now-showing page in the specification of the runs.
ListingTitles == {"Alien", "Brazil"}

\* A listing entry without a title anchor.
NoAnchor == "<no anchor>"

\* s repeated n times.
RECURSIVE Repeat(_, _)
Repeat(s, n) ==
    IF n = 0 THEN ""
    ELSE LET half == Repeat(s, n \div 2)
         IN  IF n % 2 = 0 THEN half \o half ELSE half \o half \o s

\* A serialization of n characters: a JSON list of one string.
Payload(fill, n) == "[\"" \o Repeat(fill, n - 4) \o "\"]"

ShortPayload == "[{\"cinemaName\":\"GSC\",\"showings\":[{\"date\":\"Mon\",\"times\":[\"10:00\"]}]}]"

\* What scrape_aggregated_showtimes returns in the specification of the runs.
RunPayloads == {NA, ShortPayload}

\* What it returns in the specification of the record builder: the
\* sentinel, the empty list and payloads of every length around the budget.
BuildPayloads ==
    {NA, "[]", ShortPayload}
        \cup {Payload(fill, SHEETS_CELL_CHAR_LIMIT + d) :
                 fill \in {"7", "8"}, d \in {-1, 0, 1, 2, 13, 14, 15}}

PosterPath == "/downloaded_posters/2024_01/poster.jpg"

Idle == [title |-> "", genre |-> NA, poster_url |-> NA, local_poster_path |-> None,
         showtimes_link |-> FALSE, showtimes_data |-> NA]

NoFailure == "none"

NoSheet == [exists |-> FALSE, rows |-> <<>>]

(***************************************************************************)
(* parse_showtimes_from_html. The argument is the list cinema_divs of the  *)
(* elements that '#ShowtimesList > a, #ShowtimesList > div' selects, in    *)
(* document order. An element is a record: name is "a" or "div", b is the  *)
(* text of the anchor's <b> (None without a <b>), showbox is the list of   *)
(* the texts of the nodes 'div.showbox a, div.showbox' selects in a div.   *)
(***************************************************************************)
Anchor(b) == [name |-> "a", b |-> b, showbox |-> <<>>]

Block(texts) == [name |-> "div", b |-> None, showbox |-> texts]

\* str.strip() for the blanks of the model's texts.
RECURSIVE lstrip(_)
lstrip(s) ==
    IF s # "" /\ SubSeq(s, 1, 1) = " " THEN lstrip(SubSeq(s, 2, Len(s))) ELSE s

RECURSIVE rstrip(_)
rstrip(s) ==
    IF s # "" /\ SubSeq(s, Len(s), Len(s)) = " "
    THEN rstrip(SubSeq(s, 1, Len(s) - 1)) ELSE s

strip(s) == lstrip(rstrip(s))

\* [t.text.strip() for t in element.select(...) if t.text.strip()]
TimesOf(element) ==
    SelectSeq([i \in 1..Len(element.showbox) |-> strip(element.showbox[i])],
              LAMBDA t : t # "")

\* list(set(times)): each label once. Python fixes no order for it; the
\* order of first occurrence is taken here, and sorted() follows.
RECURSIVE list_set(_)
list_set(times) ==
    IF times = <<>> THEN <<>>
    ELSE LET rest == list_set(SubSeq(times, 1, Len(times) - 1))
             last == times[Len(times)]
         IN  IF \E i \in 1..Len(rest) : rest[i] = last THEN rest
             ELSE Append(rest, last)

\* sorted() of a list of str.
RECURSIVE InsertStr(_, _)
InsertStr(sorted, t) ==
    IF sorted = <<>> THEN <<t>>
    ELSE IF StrLess(t, Head(sorted)) THEN <<t>> \o sorted
         ELSE <<Head(sorted)>> \o InsertStr(Tail(sorted), t)

RECURSIVE sorted_strs(_)
sorted_strs(times) ==
    IF times = <<>> THEN <<>>
    ELSE InsertStr(sorted_strs(SubSeq(times, 1, Len(times) - 1)), times[Len(times)])

\* A faulty clean-up: the labels are sorted and not deduplicated.
SortedSetMutant(times) == sorted_strs(times)

\* sorted(list(set(showtimes[cinema])))
SortedSet(times) == sorted_strs(list_set(times))

\* The `for element in cinema_divs` loop from position i on.
RECURSIVE ParseLoop(_, _, _, _)
ParseLoop(cinema_divs, i, current_cinema, d) ==
    IF i > Len(cinema_divs) THEN d
    ELSE LET element == cinema_divs[i]
         IN  IF element.name = "a"
             THEN IF element.b # None
                  THEN LET cinema == strip(element.b)
                       IN  ParseLoop(cinema_divs, i + 1, cinema,
                                     IF DictHas(d, cinema) THEN d
                                     ELSE DictSet(d, cinema, <<>>))
                  ELSE ParseLoop(cinema_divs, i + 1, current_cinema, d)
             ELSE LET times == TimesOf(element)
                  IN  IF times # <<>> /\ current_cinema # NA
                      THEN ParseLoop(cinema_divs, i + 1, current_cinema,
                                     DictSet(d, current_cinema,
                                             DictGet(d, current_cinema) \o times))
                      ELSE ParseLoop(cinema_divs, i + 1, current_cinema, d)

\* parse_showtimes_from_html(soup): a dict cinema -> list of time labels, as
\* a sequence of [key, ref] entries in insertion order.
parse_showtimes_from_html(cinema_divs) ==
    LET d == ParseLoop(cinema_divs, 1, NA, <<>>)
    IN  [i \in 1..Len(d) |-> [key |-> d[i].key, ref |-> SortedSet(d[i].ref)]]

(***************************************************************************)
(* scrape_aggregated_showtimes: the pages and the steps between requests.  *)
(* A page (the soup of a response) is a record: selects is the list of its *)
(* <select> controls ([id, options], an option being [value, text]),       *)
(* viewstate and eventvalidation are the value attributes of the hidden    *)
(* inputs (NoElement when the input is not in the page), cinema_divs is    *)
(* the list parse_showtimes_from_html works on.                            *)
(***************************************************************************)
MAX_DAYS_TO_SCRAPE == 5

DATE_DROPDOWN == "ctl00_cphContent_ctl00_ddlShowdate"

NoElement == "<no element>"

\* select_one found nothing.
NoSelect == [id |-> None, options |-> <<>>]

\* A faulty selector: the first <select> of the page, whatever its id.
date_dropdownMutant(page) ==
    IF page.selects = <<>> THEN NoSelect ELSE page.selects[1]

\* soup.select_one('#ctl00_cphContent_ctl00_ddlShowdate')
date_dropdown(page) ==
    LET found == SelectSeq(page.selects, LAMBDA s : s.id = DATE_DROPDOWN)
    IN  IF found = <<>> THEN NoSelect ELSE found[1]

\* A faulty cut: no limit on the number of dates.
TruncatedMutant(date_options) == date_options

\* date_options[:MAX_DAYS_TO_SCRAPE] if MAX_DAYS_TO_SCRAPE else date_options
Truncated(date_options) ==
    IF MAX_DAYS_TO_SCRAPE # 0
    THEN SubSeq(date_options, 1,
                IF Len(date_options) < MAX_DAYS_TO_SCRAPE
                THEN Len(date_options) ELSE MAX_DAYS_TO_SCRAPE)
    ELSE date_options

\* [(opt.get('value'), opt.text) for opt in ... if opt.get('value')], cut.
DateOptions(select) ==
    Truncated(SelectSeq(select.options, LAMBDA opt : Truthy(opt.value)))

\* soup.select_one("#__VIEWSTATE").get("value") if soup.select_one(...) else ""
TokenOf(element) == IF element # NoElement THEN element ELSE ""

\* A faulty refresh: a response without the hidden input empties the token.
RefreshMutant(token, element) == TokenOf(element)

\* if new_viewstate: viewstate = new_viewstate.get("value")
Refresh(token, element) == IF element # NoElement THEN element ELSE token

\* A faulty status check: every response is processed.
BreaksMutant(status_code) == FALSE

\* if post_response.status_code != 200: break
Breaks(status_code) == status_code # 200

\* The classes of the exceptions of the model: every one is an Exception.
ExceptionClasses == {"Exception", "RequestError", "HTTPStatusError"}

\* A faulty handler: `except httpx.RequestError`.
walker_exceptMutant(e) == e = "RequestError"

\* except Exception as e: ... return 'N/A'
walker_except(e) == e \in ExceptionClasses

\* A faulty restructuring: the showing replaces the cinema's list.
AddShowingMutant(cinema_map, cinema_name, date_str, times) ==
    DictSet(cinema_map, cinema_name,
            [cinemaName |-> cinema_name,
             showings |-> <<[date |-> date_str, times |-> times]>>])

\* if cinema_name not in cinema_map: cinema_map[cinema_name] = {...}
\* cinema_map[cinema_name]["showings"].append({"date": ..., "times": ...})
AddShowing(cinema_map, cinema_name, date_str, times) ==
    LET m == IF DictHas(cinema_map, cinema_name) THEN cinema_map
             ELSE DictSet(cinema_map, cinema_name,
                          [cinemaName |-> cinema_name, showings |-> <<>>])
        entry == DictGet(m, cinema_name)
    IN  DictSet(m, cinema_name,
                [entry EXCEPT !.showings =
                    Append(@, [date |-> date_str, times |-> times])])

\* for cinema_name, times in cinemas.items(), from position j on.
RECURSIVE CinemasLoop(_, _, _, _)
CinemasLoop(cinema_map, date_str, cinemas, j) ==
    IF j > Len(cinemas) THEN cinema_map
    ELSE CinemasLoop(AddShowing(cinema_map, cinemas[j].key, date_str, cinemas[j].ref),
                     date_str, cinemas, j + 1)

\* for date_str, cinemas in all_dates_data.items(), from position i on.
RECURSIVE DatesLoop(_, _, _)
DatesLoop(cinema_map, all_dates_data, i) ==
    IF i > Len(all_dates_data) THEN cinema_map
    ELSE DatesLoop(CinemasLoop(cinema_map, all_dates_data[i].key,
                               all_dates_data[i].ref, 1),
                   all_dates_data, i + 1)

\* final_json = list(cinema_map.values())
Restructure(all_dates_data) == DictValues(DatesLoop(<<>>, all_dates_data, 1))

\* json.dumps(..., separators=(',', ':')). The labels of the model hold no
\* character that JSON escapes.
RECURSIVE Join(_, _)
Join(strs, sep) ==
    IF strs = <<>> THEN ""
    ELSE IF Len(strs) = 1 THEN strs[1]
    ELSE strs[1] \o sep \o Join(Tail(strs), sep)

json_str(s) == "\"" \o s \o "\""

json_list(items) == "[" \o Join(items, ",") \o "]"

json_showing(showing) ==
    "{\"date\":" \o json_str(showing.date) \o ",\"times\":"
        \o json_list([i \in 1..Len(showing.times) |-> json_str(showing.times[i])])
        \o "}"

json_cinema(cinema) ==
    "{\"cinemaName\":" \o json_str(cinema.cinemaName) \o ",\"showings\":"
        \o json_list([i \in 1..Len(cinema.showings) |-> json_showing(cinema.showings[i])])
        \o "}"

json_dumps(final_json) ==
    json_list([i \in 1..Len(final_json) |-> json_cinema(final_json[i])])

\* The locals of a call before its first statement, with an empty history.
NoWalk == [date_options |-> <<>>, viewstate |-> "", eventvalidation |-> "",
           all_dates_data |-> <<>>, i |-> 1, final_json |-> <<>>,
           ret |-> None, raised |-> None,
           requests |-> <<>>, responses |-> <<>>]

GetRequest == [method |-> "GET", date_val |-> None,
               viewstate |-> None, eventvalidation |-> None]

\* form_data for one date, as client.post sends it.
form_data(w, date_val) ==
    [method |-> "POST", date_val |-> date_val,
     viewstate |-> w.viewstate, eventvalidation |-> w.eventvalidation]

\* After the date loop: the restructuring and the serialization.
Finished(w) ==
    LET final_json == Restructure(w.all_dates_data)
    IN  [w EXCEPT !.final_json = final_json, !.ret = json_dumps(final_json)]

\* The head of `for i, (date_val, date_txt) in enumerate(date_options[1:])`:
\* w.i is the position in date_options of the next date. The postback of
\* that date is sent, or the loop is over.
LoopHead(w) ==
    IF w.i <= Len(w.date_options)
    THEN [w EXCEPT !.requests = Append(@, form_data(w, w.date_options[w.i].value))]
    ELSE Finished(w)

\* The statements from the response of the GET to the first postback.
AfterGet(w, page) ==
    LET select == date_dropdown(page)
        date_options == DateOptions(select)
    IN  IF select = NoSelect THEN [w EXCEPT !.ret = NA]
        ELSE IF date_options = <<>>
             THEN [w EXCEPT !.viewstate = TokenOf(page.viewstate),
                            !.eventvalidation = TokenOf(page.eventvalidation),
                            !.ret = NA]
             ELSE LoopHead([w EXCEPT
                     !.date_options = date_options,
                     !.viewstate = TokenOf(page.viewstate),
                     !.eventvalidation = TokenOf(page.eventvalidation),
                     !.all_dates_data =
                         DictSet(<<>>, date_options[1].text,
                                 parse_showtimes_from_html(page.cinema_divs)),
                     !.i = 2])

\* The statements from the response of a postback to the next postback.
AfterPost(w, status_code, page) ==
    IF Breaks(status_code) THEN Finished(w)
    ELSE LoopHead([w EXCEPT
            !.all_dates_data =
                DictSet(@, w.date_options[w.i].text,
                        parse_showtimes_from_html(page.cinema_divs)),
            !.viewstate = Refresh(@, page.viewstate),
            !.eventvalidation = Refresh(@, page.eventvalidation),
            !.i = @ + 1])

(***************************************************************************)
(* The __main__ block and main_scraper.                                    *)
(***************************************************************************)
runLocals == <<heap, existing_movie_data, scraped_records, final_data,
               movie_listings, idx, cur, heap0>>

\* An exception leaves main_scraper (or the credential check raises): the
\* `except Exception` of the __main__ block prints it and the script ends.
\* The process ends: its objects are gone.
ProcessEnds ==
    /\ heap' = <<>> /\ heap0' = <<>>
    /\ existing_movie_data' = <<>> /\ scraped_records' = <<>> /\ final_data' = <<>>
    /\ movie_listings' = <<>> /\ idx' = 1 /\ cur' = Idle
    /\ pc' = "exited"

TopLevelError(what) ==
    /\ failed' = what
    /\ outcome' = "error"
    /\ exit_status' = 0
    /\ ProcessEnds

\* if not os.path.exists(GOOGLE_SHEETS_CREDENTIALS): raise FileNotFoundError
MainNoCredentials ==
    /\ pc = "main"
    /\ TopLevelError("credentials")
    /\ UNCHANGED <<sheet, clock, run, sheet0>>
    /\ UNCHANGED walkerVars

\* asyncio.run(main_scraper())
MainStart ==
    /\ pc = "main"
    /\ pc' = "setup"
    /\ UNCHANGED <<sheet, clock, run, failed, exit_status, outcome, sheet0, runLocals>>
    /\ UNCHANGED walkerVars

\* service_account, open, get_master_worksheet: the worksheet is found, or
\* created with the header row.
SetupOk ==
    /\ pc = "setup"
    /\ sheet' = IF sheet.exists THEN sheet ELSE [exists |-> TRUE, rows |-> <<headers>>]
    /\ pc' = "read"
    /\ UNCHANGED <<clock, run, failed, exit_status, outcome, sheet0, runLocals>>
    /\ UNCHANGED walkerVars

SetupFails ==
    /\ pc = "setup"
    /\ TopLevelError("setup")
    /\ UNCHANGED <<sheet, clock, run, sheet0>>
    /\ UNCHANGED walkerVars

\* read_master_sheet: the records of the sheet, keyed by title.
ReadOk ==
    /\ pc = "read"
    /\ heap' = get_all_records(sheet.rows)
    /\ existing_movie_data' =
           DictOfRecords(heap', [i \in 1..Len(heap') |-> i], 1, <<>>)
    /\ pc' = "listing"
    /\ UNCHANGED <<sheet, scraped_records, final_data, movie_listings, idx, cur,
                   clock, run, failed, exit_status, outcome, sheet0, heap0>>
    /\ UNCHANGED walkerVars

\* read_master_sheet: get_all_records raises; the except returns {}.
ReadFails ==
    /\ pc = "read"
    /\ existing_movie_data' = <<>>
    /\ failed' = "sheet_read"
    /\ pc' = "listing"
    /\ UNCHANGED <<sheet, heap, scraped_records, final_data, movie_listings, idx,
                   cur, clock, run, exit_status, outcome, sheet0, heap0>>
    /\ UNCHANGED walkerVars

\* The now-showing page: its listing entries.
ListingPages ==
    UNION {[1..n -> ListingTitles \cup {NoAnchor}] : n \in 0..MaxListings}

\* What the extraction finds on a detail page: every field, or none of them.
DetailPages ==
    {[genre |-> "Action", poster_url |-> "/img/poster.jpg", showtimes_link |-> TRUE],
     [genre |-> NA, poster_url |-> NA, showtimes_link |-> FALSE]}

ListingOk ==
    /\ pc = "listing"
    /\ \E page \in ListingPages : movie_listings' = page
    /\ idx' = 1
    /\ pc' = "loop"
    /\ UNCHANGED <<sheet, heap, existing_movie_data, scraped_records, final_data,
                   cur, clock, run, failed, exit_status, outcome, sheet0, heap0>>
    /\ UNCHANGED walkerVars

\* client.get(MOVIES_NOWSHOWING_URL) raises.
ListingFails ==
    /\ pc = "listing"
    /\ TopLevelError("listing")
    /\ UNCHANGED <<sheet, clock, run, sheet0>>
    /\ UNCHANGED walkerVars

\* for listing in movie_listings: the loop is over.
LoopDone ==
    /\ pc = "loop"
    /\ idx > Len(movie_listings)
    /\ pc' = "merge"
    /\ UNCHANGED <<sheet, clock, run, failed, exit_status, outcome, sheet0, runLocals>>
    /\ UNCHANGED walkerVars

\* The pacing sleep; an entry without a title anchor is skipped.
LoopNoTitle ==
    /\ pc = "loop"
    /\ idx <= Len(movie_listings)
    /\ movie_listings[idx] = NoAnchor
    /\ clock' = clock + REQUEST_DELAY
    /\ idx' = idx + 1
    /\ UNCHANGED <<pc, sheet, heap, existing_movie_data, scraped_records, final_data,
                   movie_listings, cur, run, failed, exit_status, outcome, sheet0,
                   heap0>>
    /\ UNCHANGED walkerVars

LoopMovie ==
    /\ pc = "loop"
    /\ idx <= Len(movie_listings)
    /\ movie_listings[idx] # NoAnchor
    /\ clock' = clock + REQUEST_DELAY
    /\ cur' = [Idle EXCEPT !.title = movie_listings[idx]]
    /\ pc' = "detail"
    /\ UNCHANGED <<sheet, heap, existing_movie_data, scraped_records, final_data,
                   movie_listings, idx, run, failed, exit_status, outcome, sheet0,
                   heap0>>
    /\ UNCHANGED walkerVars

\* client.get(movie_url) raises: nothing in main_scraper catches it.
DetailFails ==
    /\ pc = "detail"
    /\ TopLevelError("detail")
    /\ UNCHANGED <<sheet, clock, run, sheet0>>
    /\ UNCHANGED walkerVars

\* The detail page has no '.con-lg' container: continue.
DetailNoContainer ==
    /\ pc = "detail"
    /\ cur' = Idle
    /\ idx' = idx + 1
    /\ pc' = "loop"
    /\ UNCHANGED <<sheet, heap, existing_movie_data, scraped_records, final_data,
                   movie_listings, clock, run, failed, exit_status, outcome, sheet0,
                   heap0>>
    /\ UNCHANGED walkerVars

\* The metadata, the poster element and the showtimes link of the page.
DetailOk ==
    /\ pc = "detail"
    /\ \E page \in DetailPages :
          cur' = [cur EXCEPT !.genre = page.genre, !.poster_url = page.poster_url,
                             !.showtimes_link = page.showtimes_link]
    /\ pc' = "poster"
    /\ UNCHANGED <<sheet, heap, existing_movie_data, scraped_records, final_data,
                   movie_listings, idx, clock, run, failed, exit_status, outcome,
                   sheet0, heap0>>
    /\ UNCHANGED walkerVars

\* download_image: no request for a missing poster URL.
PosterSkip ==
    /\ pc = "poster"
    /\ cur.poster_url = NA
    /\ cur' = [cur EXCEPT !.local_poster_path = None]
    /\ pc' = "showtimes"
    /\ UNCHANGED <<sheet, heap, existing_movie_data, scraped_records, final_data,
                   movie_listings, idx, clock, run, failed, exit_status, outcome,
                   sheet0, heap0>>
    /\ UNCHANGED walkerVars

PosterOk ==
    /\ pc = "poster"
    /\ cur.poster_url # NA
    /\ cur' = [cur EXCEPT !.local_poster_path = PosterPath]
    /\ pc' = "showtimes"
    /\ UNCHANGED <<sheet, heap, existing_movie_data, scraped_records, final_data,
                   movie_listings, idx, clock, run, failed, exit_status, outcome,
                   sheet0, heap0>>
    /\ UNCHANGED walkerVars

\* download_image: the request fails; the except returns None.
PosterFails ==
    /\ pc = "poster"
    /\ cur.poster_url # NA
    /\ cur' = [cur EXCEPT !.local_poster_path = None]
    /\ failed' = "poster"
    /\ pc' = "showtimes"
    /\ UNCHANGED <<sheet, heap, existing_movie_data, scraped_records, final_data,
                   movie_listings, idx, clock, run, exit_status, outcome, sheet0,
                   heap0>>
    /\ UNCHANGED walkerVars

\* No showtimes link on the detail page: showtimes_data stays 'N/A'.
NoShowtimesLink ==
    /\ pc = "showtimes"
    /\ ~cur.showtimes_link
    /\ cur' = [cur EXCEPT !.showtimes_data = NA]
    /\ pc' = "append"
    /\ UNCHANGED <<sheet, heap, existing_movie_data, scraped_records, final_data,
                   movie_listings, idx, clock, run, failed, exit_status, outcome,
                   sheet0, heap0>>
    /\ UNCHANGED walkerVars

\* scrape_aggregated_showtimes returns one of results without a failed request.
Walk(results) ==
    /\ pc = "showtimes"
    /\ cur.showtimes_link
    /\ \E showtimes_data \in results : cur' = [cur EXCEPT !.showtimes_data = showtimes_data]
    /\ pc' = "append"
    /\ UNCHANGED <<sheet, heap, existing_movie_data, scraped_records, final_data,
                   movie_listings, idx, clock, run, failed, exit_status, outcome,
                   sheet0, heap0>>
    /\ UNCHANGED walkerVars

\* The initial fetch of the showtime page fails: the except returns 'N/A'.
WalkFetchFails ==
    /\ pc = "showtimes"
    /\ cur.showtimes_link
    /\ cur' = [cur EXCEPT !.showtimes_data = NA]
    /\ failed' = "showtimes"
    /\ pc' = "append"
    /\ UNCHANGED <<sheet, heap, existing_movie_data, scraped_records, final_data,
                   movie_listings, idx, clock, run, exit_status, outcome, sheet0,
                   heap0>>
    /\ UNCHANGED walkerVars

\* A date postback fails: a raised exception gives 'N/A', a non-success
\* status ends the date loop and the dates collected so far are returned.
WalkPostbackFails ==
    /\ pc = "showtimes"
    /\ cur.showtimes_link
    /\ \E showtimes_data \in {NA, ShortPayload} :
          cur' = [cur EXCEPT !.showtimes_data = showtimes_data]
    /\ failed' = "postback"
    /\ pc' = "append"
    /\ UNCHANGED <<sheet, heap, existing_movie_data, scraped_records, final_data,
                   movie_listings, idx, clock, run, exit_status, outcome, sheet0,
                   heap0>>
    /\ UNCHANGED walkerVars

\* The truncation and scraped_records.append({...}).
AppendRecord ==
    /\ pc = "append"
    /\ heap' = Append(heap, Record(cur.title, cur.genre, cur.local_poster_path,
                                   Truncate(cur.showtimes_data), strftime(clock)))
    /\ scraped_records' = Append(scraped_records, Len(heap) + 1)
    /\ cur' = Idle
    /\ idx' = idx + 1
    /\ pc' = "loop"
    /\ UNCHANGED <<sheet, existing_movie_data, final_data, movie_listings, clock,
                   run, failed, exit_status, outcome, sheet0, heap0>>
    /\ UNCHANGED walkerVars

\* if scraped_records: final_data = merge_data(existing_movie_data, scraped_records)
Merge ==
    /\ pc = "merge"
    /\ scraped_records # <<>>
    /\ heap0' = heap
    /\ LET r == merge_data(heap, existing_movie_data, scraped_records)
       IN  heap' = r.heap /\ final_data' = r.ret
    /\ pc' = "write"
    /\ UNCHANGED <<sheet, existing_movie_data, scraped_records, movie_listings, idx,
                   cur, clock, run, failed, exit_status, outcome, sheet0>>
    /\ UNCHANGED walkerVars

\* else: "No fresh data was scraped. Master sheet remains unchanged."
NoFreshData ==
    /\ pc = "merge"
    /\ scraped_records = <<>>
    /\ pc' = "finished"
    /\ UNCHANGED <<sheet, clock, run, failed, exit_status, outcome, sheet0, runLocals>>
    /\ UNCHANGED walkerVars

\* update_master_sheet: `if not data: return`, else worksheet.clear().
ClearOk ==
    /\ pc = "write"
    /\ IF final_data = <<>>
       THEN pc' = "finished" /\ UNCHANGED sheet
       ELSE pc' = "update" /\ sheet' = [sheet EXCEPT !.rows = <<>>]
    /\ UNCHANGED <<clock, run, failed, exit_status, outcome, sheet0, runLocals>>
    /\ UNCHANGED walkerVars

\* worksheet.clear() raises: the except prints the error.
ClearFails ==
    /\ pc = "write"
    /\ final_data # <<>>
    /\ failed' = "sheet_clear"
    /\ pc' = "finished"
    /\ UNCHANGED <<sheet, clock, run, exit_status, outcome, sheet0, runLocals>>
    /\ UNCHANGED walkerVars

\* worksheet.update(rows_to_write)
UpdateOk ==
    /\ pc = "update"
    /\ sheet' = [sheet EXCEPT !.rows = rows_to_write(heap, final_data)]
    /\ pc' = "finished"
    /\ UNCHANGED <<clock, run, failed, exit_status, outcome, sheet0, runLocals>>
    /\ UNCHANGED walkerVars

\* worksheet.update raises after the sheet was cleared: the except prints it.
UpdateFails ==
    /\ pc = "update"
    /\ failed' = "sheet_update"
    /\ pc' = "finished"
    /\ UNCHANGED <<sheet, clock, run, exit_status, outcome, sheet0, runLocals>>
    /\ UNCHANGED walkerVars

\* print("\nScript finished."): main_scraper returns and the process ends.
Finish ==
    /\ pc = "finished"
    /\ outcome' = "finished"
    /\ exit_status' = 0
    /\ ProcessEnds
    /\ UNCHANGED <<sheet, clock, run, failed, sheet0>>
    /\ UNCHANGED walkerVars

\* The next scheduled invocation, a day later, after the previous one ended.
NextRun ==
    /\ pc = "exited"
    /\ run < MaxRuns
    /\ run' = run + 1
    /\ clock' = run * SecondsPerDay
    /\ sheet0' = sheet
    /\ pc' = "main"
    /\ failed' = NoFailure /\ outcome' = "running" /\ exit_status' = 0
    /\ UNCHANGED <<sheet, runLocals>>
    /\ UNCHANGED walkerVars

Init ==
    /\ pc = "main"
    /\ sheet = NoSheet /\ sheet0 = NoSheet
    /\ heap = <<>> /\ heap0 = <<>>
    /\ existing_movie_data = <<>> /\ scraped_records = <<>> /\ final_data = <<>>
    /\ movie_listings = <<>> /\ idx = 1 /\ cur = Idle
    /\ clock = 0 /\ run = 1
    /\ failed = NoFailure /\ outcome = "running" /\ exit_status = 0
    /\ walk = NoWalk /\ soup = <<>> /\ showtimes = <<>>

WalkRun == Walk(RunPayloads)

Next ==
    \/ MainNoCredentials \/ MainStart \/ SetupOk \/ SetupFails
    \/ ReadOk \/ ReadFails \/ ListingOk \/ ListingFails
    \/ LoopDone \/ LoopNoTitle \/ LoopMovie
    \/ DetailFails \/ DetailNoContainer \/ DetailOk
    \/ PosterSkip \/ PosterOk \/ PosterFails
    \/ NoShowtimesLink \/ WalkRun \/ WalkFetchFails \/ WalkPostbackFails
    \/ AppendRecord \/ Merge \/ NoFreshData
    \/ ClearOk \/ ClearFails \/ UpdateOk \/ UpdateFails
    \/ Finish \/ NextRun

Spec == Init /\ [][Next]_vars

(***************************************************************************)
(* merge_data on its own: main_scraper at the merge step, the existing     *)
(* collection and the fresh batch drawn from bounded sets. The existing    *)
(* records are rows as update_master_sheet writes them (every cell a str,  *)
(* ascending by title); the fresh records are as the record builder makes  *)
(* them (a timestamp in 'Scrape Date', one pacing delay apart).            *)
(***************************************************************************)
OldPosterPath == "/downloaded_posters/2023_12/poster.jpg"

Absent == [present |-> FALSE, genre |-> NA, poster |-> "None"]

ExistingChoices ==
    {Absent} \cup [present : {TRUE}, genre : {NA, "Action"}, poster : {OldPosterPath}]

FreshChoices ==
    [title : Titles, genre : {"", NA, "Drama"}, poster : {None, PosterPath}]

FreshBatches == UNION {[1..n -> FreshChoices] : n \in 1..MaxFresh}

\* The records read from the sheet, for a choice e of the rows.
ExistingRecords(e) ==
    LET present == SelectSeq(TitleList, LAMBDA t : e[t].present)
    IN  [i \in 1..Len(present) |->
            Record(present[i], e[present[i]].genre, e[present[i]].poster,
                   ShortPayload, strftime(REQUEST_DELAY))]

\* The records built in the run, for a choice f of the pages.
FreshRecords(f) ==
    [i \in 1..Len(f) |->
        Record(f[i].title, f[i].genre, f[i].poster, NA,
               strftime(SecondsPerDay + i * REQUEST_DELAY))]

InitMerge ==
    \E e \in [Titles -> ExistingChoices], f \in FreshBatches :
        LET old == ExistingRecords(e)
            new == FreshRecords(f)
        IN  /\ heap = old \o new
            /\ heap0 = heap
            /\ existing_movie_data =
                   DictOfRecords(old, [i \in 1..Len(old) |-> i], 1, <<>>)
            /\ scraped_records = [i \in 1..Len(new) |-> Len(old) + i]
            /\ final_data = <<>>
            /\ movie_listings = [i \in 1..Len(f) |-> f[i].title]
            /\ idx = Len(f) + 1
            /\ cur = Idle
            /\ pc = "merge"
            /\ sheet = [exists |-> TRUE, rows |-> <<headers>> \o [i \in 1..Len(old) |-> RowOf(old[i])]]
            /\ sheet0 = sheet
            /\ clock = SecondsPerDay + Len(f) * REQUEST_DELAY
            /\ run = 2
            /\ failed = NoFailure /\ outcome = "running" /\ exit_status = 0
            /\ walk = NoWalk /\ soup = <<>> /\ showtimes = <<>>

NextMerge == Merge

SpecMerge == InitMerge /\ [][NextMerge]_vars

(***************************************************************************)
(* The record builder on its own: main_scraper in its loop over a listing, *)
(* no request failing, the walker returning payloads of every length       *)
(* around the budget.                                                      *)
(***************************************************************************)
InitBuild ==
    /\ \E page \in UNION {[1..n -> ListingTitles] : n \in 1..MaxListings} :
          movie_listings = page
    /\ idx = 1
    /\ cur = Idle
    /\ pc = "loop"
    /\ sheet = [exists |-> TRUE, rows |-> <<headers>>] /\ sheet0 = sheet
    /\ heap = <<>> /\ heap0 = <<>>
    /\ existing_movie_data = <<>> /\ scraped_records = <<>> /\ final_data = <<>>
    /\ clock = 0 /\ run = 1
    /\ failed = NoFailure /\ outcome = "running" /\ exit_status = 0
    /\ walk = NoWalk /\ soup = <<>> /\ showtimes = <<>>

WalkBuild == Walk(BuildPayloads)

NextBuild ==
    \/ LoopDone \/ LoopMovie \/ DetailOk
    \/ PosterSkip \/ PosterOk
    \/ NoShowtimesLink \/ WalkBuild
    \/ AppendRecord

SpecBuild == InitBuild /\ [][NextBuild]_vars

(***************************************************************************)
(* scrape_aggregated_showtimes step by step, inside main_scraper: one      *)
(* movie whose detail page has a showtimes link, the site answering each   *)
(* request with a page of a bounded set, a non-success status or an error. *)
(***************************************************************************)
MaxDates == 6      \* options of the longest date selector

DayLabels == <<"Mon", "Tue", "Wed", "Thu", "Fri", "Sat", "Sun">>

Option(n) == [value |-> "d" \o Digit(n % 10), text |-> DayLabels[((n - 1) % 7) + 1]]

Week(n) == [i \in 1..n |-> Option(i)]

\* Options that are no dates: an empty value, no value attribute.
Placeholder == [value |-> "", text |-> "Select date"]

NoValue == [value |-> None, text |-> "Today"]

\* Three dates, the first two under one display label.
SameLabel == <<Option(1), [value |-> "d2", text |-> "Mon"], Option(3)>>

\* Three dates, the first and the last under one display label.
SameLabelApart == <<Option(1), Option(2), [value |-> "d3", text |-> "Mon"]>>

OptionLists ==
    {<<>>, <<Placeholder>>, Week(1), <<Placeholder, Option(1), NoValue, Option(2)>>,
     SameLabel, SameLabelApart, Week(MaxDates)}

\* Another <select> of the page.
OtherSelect == [id |-> "ddlState", options |-> Week(2)]

SelectLists ==
    {<<>>, <<OtherSelect>>, <<OtherSelect, [id |-> DATE_DROPDOWN, options |-> Week(2)]>>}
        \cup {<<[id |-> DATE_DROPDOWN, options |-> o]>> : o \in OptionLists}

ShowtimesGSC ==
    <<Anchor("GSC"), Block(<<"9:30", "10:00">>), Anchor("TGV"), Block(<<"10:00">>)>>

ShowtimesTGV == <<Anchor("TGV"), Block(<<"21:15 ", "21:15">>)>>

\* [viewstate, eventvalidation] of a page.
TokenPairs ==
    {<<NoElement, NoElement>>, <<"vs1", NoElement>>, <<NoElement, "ev1">>,
     <<"vs2", "ev2">>}

InitialPages ==
    {[selects |-> s, viewstate |-> t[1], eventvalidation |-> t[2], cinema_divs |-> c] :
        s \in SelectLists, t \in TokenPairs, c \in {<<>>, ShowtimesGSC, ShowtimesTGV}}

\* The pages of the postback responses (their selects are not read).
PostPages ==
    {[selects |-> <<>>, viewstate |-> t[1], eventvalidation |-> t[2], cinema_divs |-> c] :
        t \in TokenPairs, c \in {ShowtimesGSC, ShowtimesTGV}}

\* The body of a response with a non-success status.
ErrorPage == [selects |-> <<>>, viewstate |-> NoElement,
              eventvalidation |-> NoElement, cinema_divs |-> <<>>]

\* The call returns w.ret to `showtimes_data = await scrape_...(...)`, or
\* the coroutine awaits the response of the postback it has sent.
WalkerStep(w) ==
    /\ walk' = w
    /\ IF w.ret # None
       THEN cur' = [cur EXCEPT !.showtimes_data = w.ret] /\ pc' = "append"
       ELSE cur' = cur /\ pc' = "post"

\* Exception e is raised inside the try block: the handler returns 'N/A';
\* an exception it does not catch leaves main_scraper.
Raise(e, what) ==
    IF walker_except(e)
    THEN /\ walk' = [walk EXCEPT !.raised = e, !.ret = NA]
         /\ cur' = [cur EXCEPT !.showtimes_data = NA]
         /\ pc' = "append"
         /\ failed' = what
         /\ UNCHANGED <<heap, existing_movie_data, scraped_records, final_data,
                        movie_listings, idx, exit_status, outcome, heap0>>
    ELSE /\ walk' = [walk EXCEPT !.raised = e]
         /\ TopLevelError(what)

\* if showtimes_link: the call, up to `await client.get(showtimes_url)`.
WalkCall ==
    /\ pc = "showtimes"
    /\ cur.showtimes_link
    /\ walk' = [NoWalk EXCEPT !.requests = <<GetRequest>>]
    /\ pc' = "get"
    /\ UNCHANGED <<sheet, heap, existing_movie_data, scraped_records, final_data,
                   movie_listings, idx, cur, clock, run, failed, exit_status,
                   outcome, sheet0, heap0, soup, showtimes>>

\* client.get raises (RequestError), raise_for_status raises for an error
\* status (HTTPStatusError), or another statement of the try block raises
\* while the page is handled (Exception).
GetRaises ==
    /\ pc = "get"
    /\ \E e \in ExceptionClasses : Raise(e, "showtimes")
    /\ UNCHANGED <<sheet, clock, run, sheet0, soup, showtimes>>

\* The GET is answered with a page: the date options, the tokens, the
\* showtimes of the first date, then the first postback or the return.
GetOk ==
    /\ pc = "get"
    /\ \E page \in InitialPages :
          WalkerStep(AfterGet([walk EXCEPT !.responses =
                                  Append(@, [status_code |-> 200, page |-> page])],
                              page))
    /\ UNCHANGED <<sheet, heap, existing_movie_data, scraped_records, final_data,
                   movie_listings, idx, clock, run, failed, exit_status, outcome,
                   sheet0, heap0, soup, showtimes>>

\* A postback is answered with status 200.
PostOk ==
    /\ pc = "post"
    /\ \E page \in PostPages :
          WalkerStep(AfterPost([walk EXCEPT !.responses =
                                   Append(@, [status_code |-> 200, page |-> page])],
                               200, page))
    /\ clock' = clock + REQUEST_DELAY
    /\ UNCHANGED <<sheet, heap, existing_movie_data, scraped_records, final_data,
                   movie_listings, idx, run, failed, exit_status, outcome,
                   sheet0, heap0, soup, showtimes>>

\* A postback is answered with another status.
PostNot200 ==
    /\ pc = "post"
    /\ WalkerStep(AfterPost([walk EXCEPT !.responses =
                                Append(@, [status_code |-> 500, page |-> ErrorPage])],
                            500, ErrorPage))
    /\ clock' = clock + REQUEST_DELAY
    /\ failed' = "postback"
    /\ UNCHANGED <<sheet, heap, existing_movie_data, scraped_records, final_data,
                   movie_listings, idx, run, exit_status, outcome, sheet0, heap0,
                   soup, showtimes>>

\* client.post raises.
PostRaises ==
    /\ pc = "post"
    /\ Raise("RequestError", "postback")
    /\ clock' = clock + REQUEST_DELAY
    /\ UNCHANGED <<sheet, run, sheet0, soup, showtimes>>

InitWalk ==
    /\ movie_listings = <<"Alien">>
    /\ idx = 1
    /\ cur = [Idle EXCEPT !.title = "Alien", !.genre = "Action",
                          !.poster_url = "/img/poster.jpg",
                          !.local_poster_path = PosterPath,
                          !.showtimes_link = TRUE]
    /\ pc = "showtimes"
    /\ sheet = [exists |-> TRUE, rows |-> <<headers>>] /\ sheet0 = sheet
    /\ heap = <<>> /\ heap0 = <<>>
    /\ existing_movie_data = <<>> /\ scraped_records = <<>> /\ final_data = <<>>
    /\ clock = REQUEST_DELAY /\ run = 1
    /\ failed = NoFailure /\ outcome = "running" /\ exit_status = 0
    /\ walk = NoWalk /\ soup = <<>> /\ showtimes = <<>>

NextWalk ==
    \/ WalkCall \/ GetRaises \/ GetOk
    \/ PostOk \/ PostNot200 \/ PostRaises
    \/ AppendRecord

SpecWalk == InitWalk /\ [][NextWalk]_vars

(***************************************************************************)
(* parse_showtimes_from_html on its own: the elements drawn from bounded   *)
(* sets, one call.                                                         *)
(***************************************************************************)
MaxElements == 3   \* elements under #ShowtimesList
MaxTimes == 2      \* nodes selected in one time block

\* The <b> texts of the anchors; None: an anchor without <b>.
AnchorTexts == {None, " GSC ", "TGV", NA}

\* The texts of the nodes of a time block.
TimeTexts == {"9:30", " 10:00 "}

\* A time block with a node whose text is empty.
EmptyText == Block(<<"", "9:30">>)

Elements ==
    {Anchor(b) : b \in AnchorTexts}
        \cup {Block(texts) : texts \in UNION {[1..n -> TimeTexts] : n \in 0..MaxTimes}}
        \cup {EmptyText}

InitParse ==
    /\ soup \in UNION {[1..n -> Elements] : n \in 0..MaxElements}
    /\ showtimes = <<>>
    /\ pc = "parse"
    /\ sheet = NoSheet /\ sheet0 = NoSheet
    /\ heap = <<>> /\ heap0 = <<>>
    /\ existing_movie_data = <<>> /\ scraped_records = <<>> /\ final_data = <<>>
    /\ movie_listings = <<>> /\ idx = 1 /\ cur = Idle
    /\ clock = 0 /\ run = 1
    /\ failed = NoFailure /\ outcome = "running" /\ exit_status = 0
    /\ walk = NoWalk

\* showtimes = parse_showtimes_from_html(soup)
Parse ==
    /\ pc = "parse"
    /\ showtimes' = parse_showtimes_from_html(soup)
    /\ pc' = "parsed"
    /\ UNCHANGED <<sheet, heap, existing_movie_data, scraped_records, final_data,
                   movie_listings, idx, cur, clock, run, failed, exit_status,
                   outcome, sheet0, heap0, walk, soup>>

NextParse == Parse

SpecParse == InitParse /\ [][NextParse]_vars

(***************************************************************************)
(* Properties of merge_data (SpecMerge). heap0 is the heap at the call,    *)
(* heap the heap at the return, final_data the returned list.              *)
(***************************************************************************)
Returned == pc = "write"

ExistingTitles == DictKeys(existing_movie_data)

FreshTitles ==
    {heap0[scraped_records[i]]["Movie Title"] : i \in 1..Len(scraped_records)}

\* The fresh records (as given to the call) that carry title t.
FreshOf(t) ==
    {scraped_records[i] : i \in {j \in 1..Len(scraped_records) :
                                    heap0[scraped_records[j]]["Movie Title"] = t}}

\* The last record of the fresh batch that carries title t.
LastFresh(t) ==
    scraped_records[CHOOSE i \in 1..Len(scraped_records) :
        /\ heap0[scraped_records[i]]["Movie Title"] = t
        /\ \A j \in (i + 1)..Len(scraped_records) :
               heap0[scraped_records[j]]["Movie Title"] # t]

\* The records of the output that carry title t.
OutOf(t) ==
    {final_data[i] : i \in {j \in 1..Len(final_data) :
                               heap[final_data[j]]["Movie Title"] = t}}

\* A real value: not empty, not the sentinel, not None.
Real(value) == value # "" /\ value # "N/A" /\ value # None

\* C1: for every title in both the existing collection and the fresh batch
\* and every field, if the existing record held a real value then the merged
\* record holds a real value in that field (never the sentinel, empty or None).
C1_FieldNonRegression ==
    Returned =>
        \A t \in ExistingTitles \cap FreshTitles : \A k \in Columns :
            Real(heap0[DictGet(existing_movie_data, t)][k]) =>
                /\ OutOf(t) # {}
                /\ \A r \in OutOf(t) : Real(heap[r][k])

\* A merge where a fresh record carries a sentinel, empty or None value in a
\* field whose existing value was real, and the merged record kept that value.
C1_Witness ==
    /\ Returned
    /\ \E t \in ExistingTitles \cap FreshTitles : \E k \in Columns \ {"Movie Title"} :
          /\ Real(heap0[DictGet(existing_movie_data, t)][k])
          /\ \A f \in FreshOf(t) : ~Real(heap0[f][k])
          /\ \E r \in OutOf(t) : heap[r][k] = heap0[DictGet(existing_movie_data, t)][k]

\* C6: after merge_data, the record of every title of the fresh batch holds
\* the scrape date of the (last) fresh record of that title.
C6_ScrapeDateFresh ==
    Returned =>
        \A t \in FreshTitles :
            /\ OutOf(t) # {}
            /\ \A r \in OutOf(t) :
                   heap[r]["Scrape Date"] = heap0[LastFresh(t)]["Scrape Date"]

\* A merge of a fresh record whose other fields are all sentinel, empty or
\* None into an existing record: only the scrape date changed.
C6_Witness ==
    /\ Returned
    /\ \E t \in ExistingTitles \cap FreshTitles :
          LET old == heap0[DictGet(existing_movie_data, t)]
          IN  /\ \A f \in FreshOf(t) :
                     \A k \in Columns \ {"Movie Title", "Scrape Date"} : ~Real(heap0[f][k])
              /\ \E r \in OutOf(t) :
                     /\ heap[r]["Scrape Date"] # old["Scrape Date"]
                     /\ \A k \in Columns \ {"Scrape Date"} : heap[r][k] = old[k]

\* C7: every title of the existing collection that is not in the fresh batch
\* has exactly one record in the output, equal in every field to the
\* existing record.
C7_ExistingOnlyUnchanged ==
    Returned =>
        \A t \in ExistingTitles \ FreshTitles :
            /\ Cardinality(OutOf(t)) = 1
            /\ \A r \in OutOf(t) : heap[r] = heap0[DictGet(existing_movie_data, t)]

\* A merge that changed one existing record and left another one alone.
C7_Witness ==
    /\ Returned
    /\ ExistingTitles \ FreshTitles # {}
    /\ \E t \in ExistingTitles \cap FreshTitles :
          \E r \in OutOf(t) : heap[r] # heap0[DictGet(existing_movie_data, t)]

\* C8 as stated: every title in the fresh batch and not in the existing
\* collection has a record in the output that carries the field values of a
\* fresh record of that title unchanged.
C8_FreshOnlyCarried ==
    Returned =>
        \A t \in FreshTitles \ ExistingTitles :
            \E r \in OutOf(t) : \E f \in FreshOf(t) : heap[r] = heap0[f]

\* C8 amended: every title that occurs exactly once in the fresh batch and
\* is not in the existing collection has exactly one record in the output,
\* equal in every field (sentinel values included) to its fresh record.
C8_FreshOnlyOnceCarried ==
    Returned =>
        \A t \in FreshTitles \ ExistingTitles :
            Cardinality(FreshOf(t)) = 1 =>
                /\ Cardinality(OutOf(t)) = 1
                /\ \A r \in OutOf(t) : \A f \in FreshOf(t) : heap[r] = heap0[f]

\* A merge that added a new title whose fresh record holds a sentinel, an
\* empty and a None value, all of them in the output.
C8_Witness ==
    /\ Returned
    /\ \E t \in FreshTitles \ ExistingTitles :
          /\ Cardinality(FreshOf(t)) = 1
          /\ \E r \in OutOf(t) :
                /\ heap[r]["Genre"] = ""
                /\ heap[r]["Local Poster Path"] = None
                /\ heap[r]["Aggregated Showtimes Data"] = "N/A"

\* C9: the returned list is strictly ascending by title and holds exactly
\* the titles of the existing collection and of the fresh batch.
C9_StrictlyAscending ==
    Returned =>
        /\ \A i \in 1..(Len(final_data) - 1) :
               StrLess(heap[final_data[i]]["Movie Title"],
                       heap[final_data[i + 1]]["Movie Title"])
        /\ {heap[final_data[i]]["Movie Title"] : i \in 1..Len(final_data)}
               = ExistingTitles \cup FreshTitles

\* A merge whose fresh batch is in descending order and brings a new title
\* that sorts before an existing one.
C9_Witness ==
    /\ Returned
    /\ Len(final_data) = 3
    /\ \E i \in 1..(Len(scraped_records) - 1) :
          StrLess(heap0[scraped_records[i + 1]]["Movie Title"],
                  heap0[scraped_records[i]]["Movie Title"])
    /\ \E t \in FreshTitles \ ExistingTitles : \E u \in ExistingTitles : StrLess(t, u)

(***************************************************************************)
(* Properties of the runs (Spec).                                          *)
(***************************************************************************)
Exited == pc = "exited"

\* C2: every title that is in the sheet when an invocation starts is still
\* in the sheet when the invocation has ended, whatever failed in between.
C2_HistoryKept ==
    Exited => SheetTitles(sheet0.rows) \subseteq SheetTitles(sheet.rows)

\* C3: when update_master_sheet failed (in clear or in update), a reader
\* finds in the sheet the records that were there before the invocation.
C3_WriteAllOrNothing ==
    (Exited /\ failed \in {"sheet_clear", "sheet_update"}) =>
        get_all_records(sheet.rows) = get_all_records(sheet0.rows)

PerMovieRequests == {"detail", "poster", "showtimes", "postback"}

\* C10: the failure of a per-movie request (detail page, poster, showtime
\* page, date postback) never ends main_scraper with an exception: the run
\* goes on to the remaining movies, the merge and the sink write.
C10_RequestFailureContained ==
    outcome = "error" => failed \notin PerMovieRequests

(***************************************************************************)
(* Properties of the record builder (SpecBuild).                           *)
(***************************************************************************)
\* The showtimes values of the records built so far.
StoredShowtimes ==
    {heap[scraped_records[i]]["Aggregated Showtimes Data"] :
        i \in 1..Len(scraped_records)}

\* C4 as stated: no stored showtimes value is longer than the budget.
C4_StoredWithinBudget ==
    \A s \in StoredShowtimes : Len(s) <= SHEETS_CELL_CHAR_LIMIT

\* C4 amended: no stored showtimes value is longer than the budget plus the
\* 14 characters of the truncation marker, which is below the 50,000
\* characters a cell of the sink can hold.
C4_StoredWithinBudgetPlusMarker ==
    \A s \in StoredShowtimes :
        /\ Len(s) <= SHEETS_CELL_CHAR_LIMIT + 14
        /\ Len(s) < 50000

\* A record was built from a serialization longer than the budget.
C4_Witness ==
    \E s \in StoredShowtimes : Len(s) > SHEETS_CELL_CHAR_LIMIT

\* C5: the value stored by the record builder is the walker's serialization
\* unchanged when that is not longer than the budget, and otherwise its
\* first budget-many characters followed by '...[TRUNCATED]'.
C5_TruncationForm ==
    [][(pc = "append" /\ pc' = "loop") =>
          LET serial == cur.showtimes_data
              stored == heap'[Len(heap')]["Aggregated Showtimes Data"]
          IN  IF Len(serial) > SHEETS_CELL_CHAR_LIMIT
              THEN /\ Len(stored) = SHEETS_CELL_CHAR_LIMIT + 14
                   /\ SubSeq(stored, 1, SHEETS_CELL_CHAR_LIMIT)
                          = SubSeq(serial, 1, SHEETS_CELL_CHAR_LIMIT)
                   /\ SubSeq(stored, SHEETS_CELL_CHAR_LIMIT + 1, Len(stored))
                          = "...[TRUNCATED]"
              ELSE stored = serial]_vars

\* Two records were built: one from a serialization of exactly the budget,
\* stored unchanged, and one from a longer one, stored with the marker.
C5_Witness ==
    /\ \E s \in StoredShowtimes :
          /\ Len(s) = SHEETS_CELL_CHAR_LIMIT
          /\ s \in BuildPayloads
    /\ \E s \in StoredShowtimes :
          /\ Len(s) > SHEETS_CELL_CHAR_LIMIT
          /\ SubSeq(s, SHEETS_CELL_CHAR_LIMIT + 1, Len(s)) = TRUNCATION_MARKER

(***************************************************************************)
(* The exit status of the process (Spec).                                  *)
(***************************************************************************)
\* C14: an invocation that ended by a top-level failure (an exception that
\* left main_scraper, or the missing credentials file) ended with an exit
\* status other than zero.
C14_FailureExitsNonZero ==
    (Exited /\ outcome = "error") => exit_status # 0

(***************************************************************************)
(* Duplicate titles and aliasing in merge_data (SpecMerge).                *)
(***************************************************************************)
\* The positions in the fresh batch of the records that carry title t.
FreshPositions(t) ==
    {i \in 1..Len(scraped_records) : heap0[scraped_records[i]]["Movie Title"] = t}

\* The record a title starts from in the merge: the existing record, or the
\* first fresh record when the title is new.
BaseOf(t) ==
    IF t \in ExistingTitles
    THEN heap0[DictGet(existing_movie_data, t)]
    ELSE heap0[scraped_records[CHOOSE i \in FreshPositions(t) :
                                   \A j \in FreshPositions(t) : i <= j]]

\* The value of field k in the last fresh record of title t that holds a
\* real value there, and the base value when no fresh record does.
LastRealValue(t, k) ==
    LET real == {i \in FreshPositions(t) : Real(heap0[scraped_records[i]][k])}
    IN  IF real = {} THEN BaseOf(t)[k]
        ELSE heap0[scraped_records[CHOOSE i \in real : \A j \in real : j <= i]][k]

\* C19 as stated, already for the titles that are new to the collection: a
\* title that two or more fresh records carry has, in the output, the field
\* values of the last of these records.
C19_LastRecordWins ==
    Returned =>
        \A t \in FreshTitles \ ExistingTitles :
            Cardinality(FreshOf(t)) >= 2 =>
                /\ OutOf(t) # {}
                /\ \A r \in OutOf(t) : heap[r] = heap0[LastFresh(t)]

\* C19 amended: a title that two or more fresh records carry has exactly one
\* record in the output; each field of it holds the value of the last of
\* these records that has a real value in that field (the value the title
\* started from when none has), and its scrape date is that of the last.
C19_LastRealValueWins ==
    Returned =>
        \A t \in FreshTitles :
            Cardinality(FreshOf(t)) >= 2 =>
                /\ Cardinality(OutOf(t)) = 1
                /\ \A r \in OutOf(t) :
                       /\ \A k \in Columns \ {"Scrape Date"} :
                              heap[r][k] = LastRealValue(t, k)
                       /\ heap[r]["Scrape Date"] = heap0[LastFresh(t)]["Scrape Date"]

\* A merge of two fresh records of one new title where the last one holds a
\* sentinel genre and the first a real one: the output kept the real genre
\* and took the scrape date of the last.
C19_Witness ==
    /\ Returned
    /\ \E t \in FreshTitles \ ExistingTitles :
          /\ Cardinality(FreshOf(t)) >= 2
          /\ ~Real(heap0[LastFresh(t)]["Genre"])
          /\ \E r \in OutOf(t) :
                /\ Real(heap[r]["Genre"])
                /\ heap[r]["Scrape Date"] = heap0[LastFresh(t)]["Scrape Date"]
                /\ heap[r] # heap0[LastFresh(t)]

\* C20: after the call every record object that was given to merge_data, in
\* the existing collection or in the fresh batch, holds the field values it
\* held at the call.
C20_InputsUntouched ==
    Returned => \A ref \in DOMAIN heap0 : heap[ref] = heap0[ref]

(***************************************************************************)
(* Properties of parse_showtimes_from_html (SpecParse).                    *)
(***************************************************************************)
\* C15: in the dict parse_showtimes_from_html returns, the time labels of
\* every cinema are strictly ascending in str order (so none occurs twice),
\* whatever anchors and time blocks the page holds and in whatever order.
C15_TimesDistinctSorted ==
    pc = "parsed" =>
        \A i \in 1..Len(showtimes) :
            LET times == showtimes[i].ref
            IN  \A a, b \in 1..Len(times) : a < b => StrLess(times[a], times[b])

\* A page whose cinema has two time blocks, with the labels in descending
\* order and each of them twice: the result holds each once, ascending.
C15_Witness ==
    /\ pc = "parsed"
    /\ soup = <<Anchor(" GSC "), Block(<<"9:30", " 10:00 ">>), Block(<<" 10:00 ", "9:30">>)>>
    /\ showtimes = <<[key |-> "GSC", ref |-> <<"10:00", "9:30">>]>>

(***************************************************************************)
(* Properties of the walk (SpecWalk), over the history of the call: the    *)
(* requests sent (walk.requests) and the responses received                *)
(* (walk.responses), in order.                                             *)
(***************************************************************************)
\* The page has a date-selector control.
HasDateSelector(page) ==
    \E i \in 1..Len(page.selects) : page.selects[i].id = DATE_DROPDOWN

\* The selectable dates of the page: the options of its date selector that
\* carry a value, in document order.
Selectable(page) ==
    LET i == CHOOSE n \in 1..Len(page.selects) :
                 /\ page.selects[n].id = DATE_DROPDOWN
                 /\ \A m \in 1..(n - 1) : page.selects[m].id # DATE_DROPDOWN
    IN  SelectSeq(page.selects[i].options,
                  LAMBDA opt : opt.value # None /\ opt.value # "")

GotPage == Len(walk.responses) >= 1

InitialPage == walk.responses[1].page

\* The date pages processed: the responses with status 200, the j-th being
\* the page of the j-th selectable date.
Processed == SelectSeq(walk.responses, LAMBDA r : r.status_code = 200)

Label(j) == Selectable(InitialPage)[j].text

PageShowtimes(j) == parse_showtimes_from_html(Processed[j].page.cinema_divs)

\* The last response of the walk is a postback with a non-success status.
Broke == GotPage /\ walk.responses[Len(walk.responses)].status_code # 200

\* The walk returned a serialized payload.
ReturnedPayload == walk.ret # None /\ walk.ret # NA

\* The stored showtimes field of the movie's record.
AppendedShowtimes == heap[scraped_records[1]]["Aggregated Showtimes Data"]

\* C11: the walk never ends the run: no exception leaves the call, the call
\* returns the sentinel or a payload, after any raised failure the sentinel,
\* and the movie's record is appended with the returned value.
C11_WalkNeverAborts ==
    /\ outcome # "error" /\ pc # "exited"
    /\ walk.raised # None => walk.ret = NA
    /\ pc \in {"append", "loop"} =>
           /\ walk.ret # None
           /\ walk.ret = NA \/ SubSeq(walk.ret, 1, 1) = "["
    /\ pc = "append" => cur.showtimes_data = walk.ret
    /\ pc = "loop" =>
           /\ Len(scraped_records) = 1
           /\ heap[scraped_records[1]]["Movie Title"] = "Alien"
           /\ AppendedShowtimes = walk.ret

\* A postback raised after two date pages had been collected: the record
\* was appended with the sentinel.
C11_Witness ==
    /\ pc = "loop"
    /\ walk.raised = "RequestError"
    /\ Len(walk.responses) = 2
    /\ walk.all_dates_data # <<>>
    /\ Len(scraped_records) = 1
    /\ AppendedShowtimes = NA

\* The payload holds, for cinema c, the showing of date page j.
HoldsShowing(c, j) ==
    \E i \in 1..Len(walk.final_json) :
        /\ walk.final_json[i].cinemaName = c
        /\ \E n \in 1..Len(walk.final_json[i].showings) :
              walk.final_json[i].showings[n] =
                  [date |-> Label(j), times |-> DictGet(PageShowtimes(j), c)]

\* No later processed date page carries the display label of page j.
LastOfLabel(j) == \A k \in (j + 1)..Len(Processed) : Label(k) # Label(j)

\* C12 as stated: after a postback with a non-success status no further
\* postback is sent, and the call returns a payload (not the sentinel) that
\* holds the showtimes of every date page processed before it.
C12_PartialResultsKept ==
    Broke =>
        /\ Len(walk.requests) = Len(walk.responses)
        /\ ReturnedPayload
        /\ walk.ret = json_dumps(walk.final_json)
        /\ \A j \in 1..Len(Processed) : \A c \in DictKeys(PageShowtimes(j)) :
               HoldsShowing(c, j)

\* C12 amended: as C12, for every date page processed before it whose
\* display label no later processed date page carries.
C12_PartialResultsKeptPerLabel ==
    Broke =>
        /\ Len(walk.requests) = Len(walk.responses)
        /\ ReturnedPayload
        /\ walk.ret = json_dumps(walk.final_json)
        /\ \A j \in 1..Len(Processed) : \A c \in DictKeys(PageShowtimes(j)) :
               LastOfLabel(j) => HoldsShowing(c, j)

\* The third postback of a six-date selector got a non-success status: the
\* record was appended with a payload that holds the three pages collected.
C12_Witness ==
    /\ pc = "loop"
    /\ Broke
    /\ Len(Processed) = 3
    /\ Len(Selectable(InitialPage)) = MaxDates
    /\ \E c \in DictKeys(PageShowtimes(1)) : HoldsShowing(c, 1)
    /\ \E c \in DictKeys(PageShowtimes(3)) : HoldsShowing(c, 3)
    /\ AppendedShowtimes = walk.ret

\* C13: when the page of the initial GET has no date-selector control, the
\* call returns the sentinel and the GET is the only request of the walk.
C13_NoSelectorNoPostback ==
    (GotPage /\ ~HasDateSelector(InitialPage)) =>
        /\ walk.ret = NA
        /\ walk.requests = <<GetRequest>>

\* The initial page had another <select> with options and no date selector:
\* the record was appended with the sentinel after the single GET.
C13_Witness ==
    /\ pc = "loop"
    /\ GotPage
    /\ InitialPage.selects = <<OtherSelect>>
    /\ InitialPage.viewstate = "vs2"
    /\ walk.raised = None
    /\ AppendedShowtimes = NA

\* The value of a token (field "viewstate" or "eventvalidation") in the
\* last of the first n responses that contains it, empty when none does.
RECURSIVE LastSeen(_, _)
LastSeen(token, n) ==
    IF n = 0 THEN ""
    ELSE IF walk.responses[n].page[token] # NoElement
         THEN walk.responses[n].page[token]
         ELSE LastSeen(token, n - 1)

\* C16: every postback carries, for each of the two tokens on its own, the
\* value of the last response received before it that contained the token,
\* and the empty value when no response before it did.
C16_TokensThreaded ==
    \A n \in 2..Len(walk.requests) :
        /\ walk.requests[n].viewstate = LastSeen("viewstate", n - 1)
        /\ walk.requests[n].eventvalidation = LastSeen("eventvalidation", n - 1)

\* A postback sent after a response that held only the validation blob: it
\* carries that blob and the state blob of the response before.
C16_Witness ==
    \E n \in 3..Len(walk.requests) :
        /\ walk.responses[n - 1].page.viewstate = NoElement
        /\ walk.responses[n - 1].page.eventvalidation = "ev1"
        /\ walk.responses[n - 2].page.viewstate = "vs2"
        /\ walk.responses[n - 2].page.eventvalidation = "ev2"
        /\ walk.requests[n].viewstate = "vs2"
        /\ walk.requests[n].eventvalidation = "ev1"

\* C17: the first request of a walk is the GET and every other a postback;
\* the n-th request (n >= 2) is the postback of the n-th selectable date of
\* the initial page, so the first date is never posted and none twice; there
\* are at most MAX_DAYS_TO_SCRAPE - 1 postbacks.
C17_RequestSequence ==
    /\ Len(walk.requests) >= 1 => walk.requests[1] = GetRequest
    /\ Len(walk.requests) - 1 <= MAX_DAYS_TO_SCRAPE - 1
    /\ \A n \in 2..Len(walk.requests) :
           /\ walk.requests[n].method = "POST"
           /\ GotPage /\ HasDateSelector(InitialPage)
           /\ n <= Len(Selectable(InitialPage))
           /\ walk.requests[n].date_val = Selectable(InitialPage)[n].value

\* A walk over a selector with more dates than MAX_DAYS_TO_SCRAPE that ran
\* to its end: the GET and MAX_DAYS_TO_SCRAPE - 1 postbacks.
C17_Witness ==
    /\ pc = "loop"
    /\ GotPage
    /\ HasDateSelector(InitialPage)
    /\ Len(Selectable(InitialPage)) > MAX_DAYS_TO_SCRAPE
    /\ ReturnedPayload /\ ~Broke
    /\ Len(walk.requests) = MAX_DAYS_TO_SCRAPE
    /\ walk.requests[MAX_DAYS_TO_SCRAPE].date_val = "d5"

\* The showings of cinema c after the first m processed date pages: one for
\* each page on which the cinema appeared, in visit order.
RECURSIVE ShowingsUpTo(_, _)
ShowingsUpTo(c, m) ==
    IF m = 0 THEN <<>>
    ELSE IF DictHas(PageShowtimes(m), c)
         THEN Append(ShowingsUpTo(c, m - 1),
                     [date |-> Label(m), times |-> DictGet(PageShowtimes(m), c)])
         ELSE ShowingsUpTo(c, m - 1)

\* The same with one showing for each display label: the label stands
\* where it was first visited, with the last page that carried it.
RECURSIVE ShowingsPerLabelUpTo(_, _)
ShowingsPerLabelUpTo(c, m) ==
    IF m = 0 THEN <<>>
    ELSE LET last == CHOOSE k \in 1..Len(Processed) :
                         Label(k) = Label(m) /\ LastOfLabel(k)
         IN  IF (\A k \in 1..(m - 1) : Label(k) # Label(m))
                    /\ DictHas(PageShowtimes(last), c)
             THEN Append(ShowingsPerLabelUpTo(c, m - 1),
                         [date |-> Label(m), times |-> DictGet(PageShowtimes(last), c)])
             ELSE ShowingsPerLabelUpTo(c, m - 1)

\* The payload is the serialization of a list with one entry for each
\* cinema of cinemas.
OneEntryPerCinema(cinemas) ==
    /\ walk.ret = json_dumps(walk.final_json)
    /\ {walk.final_json[i].cinemaName : i \in 1..Len(walk.final_json)} = cinemas
    /\ \A i, j \in 1..Len(walk.final_json) :
           walk.final_json[i].cinemaName = walk.final_json[j].cinemaName => i = j

\* C18 as stated: in a returned payload the showings of every cinema are one
\* {date, times} entry for each processed date page on which the cinema
\* appeared, in visit order, with the times of that page.
C18_ShowingPerDatePage ==
    ReturnedPayload =>
        /\ OneEntryPerCinema(UNION {DictKeys(PageShowtimes(j)) : j \in 1..Len(Processed)})
        /\ \A i \in 1..Len(walk.final_json) :
               walk.final_json[i].showings =
                   ShowingsUpTo(walk.final_json[i].cinemaName, Len(Processed))

\* C18 amended: the showings of every cinema are one {date, times} entry for
\* each display label of the processed date pages, in the order the labels
\* were first visited, with the times of the last page that carried the
\* label, for the cinemas that appeared on that page.
C18_ShowingPerLabel ==
    ReturnedPayload =>
        /\ OneEntryPerCinema(UNION {DictKeys(PageShowtimes(j)) :
                                       j \in {k \in 1..Len(Processed) : LastOfLabel(k)}})
        /\ \A i \in 1..Len(walk.final_json) :
               walk.final_json[i].showings =
                   ShowingsPerLabelUpTo(walk.final_json[i].cinemaName, Len(Processed))

\* A walk over three dates with distinct labels, a cinema on the first and
\* the third page only: its showings are these two, in visit order, in the
\* payload the record was appended with.
C18_Witness ==
    /\ pc = "loop"
    /\ ReturnedPayload /\ ~Broke
    /\ Len(Processed) >= 3
    /\ Label(1) # Label(2) /\ Label(2) # Label(3) /\ Label(1) # Label(3)
    /\ DictHas(PageShowtimes(1), "GSC")
    /\ ~DictHas(PageShowtimes(2), "GSC")
    /\ DictHas(PageShowtimes(3), "GSC")
    /\ \E i \in 1..Len(walk.final_json) :
          /\ walk.final_json[i].cinemaName = "GSC"
          /\ Len(walk.final_json[i].showings) >= 2
          /\ walk.final_json[i].showings[1].date = Label(1)
          /\ walk.final_json[i].showings[2].date = Label(3)
    /\ AppendedShowtimes = walk.ret

====
